---- MODULE Spec2Model ----
(***************************************************************************)
(* bluepysnap EdgePopulation (src/bluepysnap/edges/edge_population.py):    *)
(* the connection iterator iter_connections/_iter_connections with its     *)
(* direction heuristic, pathway_edges and the post-processing of ids.      *)
(*                                                                         *)
(* The dataset is the sequence of edges of the population: edge ID i - 1   *)
(* is edges[i], a pair <<source node ID, target node ID>>.                 *)
(***************************************************************************)
EXTENDS Integers, Sequences, FiniteSets, TLC

\* ------------------------------------------------------------------ bounds
\* Largest number of edges of a population.
MaxEdges == 3
\* Largest length of a source / target node-ID array handed to iter_connections.
MaxArr == 2
\* Largest length of a node-ID array in the direction specification SpecDir.
MaxDirArr == 4
\* Largest length of a group handed to ids, and largest sample / limit.
MaxGroup == 3
MaxCount == 4

\* np.uint32 holds 0 .. 2^32 - 1. TLC's integers end at 2^31 - 1, so the word is
\* scaled down: the largest value it holds is the largest edge count the model
\* can produce (no count leaves the word, as no count of a real population
\* does), and WideId is a node ID the word cannot hold (an ID >= 2^32).
Uint32Max == MaxEdges
WideId == Uint32Max + 1
\* The node IDs of the source and of the target node population that the model's
\* edges and node-ID arrays use.
SourceNodeIds == {0, 1, WideId}
TargetNodeIds == {0, 1}

\* _estimate_range_size(func, node_ids, n=3)
SAMPLE_N == 3

\* ------------------------------------------------------------ Python values
\* An optional node-ID array: None, or an array (a sequence, duplicates and any
\* order allowed).
NoneIds == [isNone |-> TRUE, ids |-> <<>>]
Some(a) == [isNone |-> FALSE, ids |-> a]

SeqsUpTo(S, n) == UNION {[1..k -> S] : k \in 0..n}
Range(s) == {s[i] : i \in 1..Len(s)}
Min(a, b) == IF a <= b THEN a ELSE b

\* The elements of a finite set of integers in ascending order.
RECURSIVE SortedSeq(_)
SortedSeq(S) ==
    IF S = {} THEN <<>>
    ELSE LET m == CHOOSE x \in S : \A y \in S : x <= y
         IN  <<m>> \o SortedSeq(S \ {m})

\* np.unique(xs): the distinct values in ascending order.
np_unique(xs) == SortedSeq(Range(xs))

\* The orders np.random.shuffle can leave an array in.
Shuffles(s) == {[i \in 1..Len(s) |-> s[p[i]]] : p \in Permutations(1..Len(s))}

\* A test that finds no array empty (the short-circuit left out).
_is_empty_Never(xs) == FALSE

\* _is_empty(xs)
_is_empty(xs) == (~xs.isNone) /\ (Len(xs.ids) = 0)

\* ------------------------------------------------- selection backend (libsonata)
\* A selection is the set of the edge IDs selected (IDs are 0-based).
select_all(E) == {i - 1 : i \in 1..Len(E)}
efferent_edges(E, node_ids) == {i - 1 : i \in {j \in 1..Len(E) : E[j][1] \in node_ids}}
afferent_edges(E, node_ids) == {i - 1 : i \in {j \in 1..Len(E) : E[j][2] \in node_ids}}
connecting_edges(E, src_ids, tgt_ids) ==
    efferent_edges(E, src_ids) \cap afferent_edges(E, tgt_ids)
\* selection.flatten(): the selected edge IDs in ascending order.
flatten(sel) == SortedSeq(sel)
\* source_nodes(selection) / target_nodes(selection): one node ID per selected edge.
source_nodes(E, sel) == LET ids == flatten(sel) IN [i \in 1..Len(ids) |-> E[ids[i] + 1][1]]
target_nodes(E, sel) == LET ids == flatten(sel) IN [i \in 1..Len(ids) |-> E[ids[i] + 1][2]]
\* len(selection.ranges): the number of maximal runs of consecutive edge IDs.
ranges_len(sel) == Cardinality({i \in sel : (i - 1) \notin sel})

\* nodes.ids(group) of the node population, for a group that is an ID array.
nodes_ids(group) == group

\* EdgePopulation._resolve_node_ids(nodes, group)
_resolve_node_ids(group) == IF group.isNone THEN NoneIds ELSE Some(nodes_ids(group.ids))


\* ---------------------------------------------------------------- the state
VARIABLES
    edges,                    \* the population's edges (the dataset)
    cast,                     \* what the build's float64 -> uint32 conversion does out of range
    pc,                       \* "idle", "created", "running", "exhausted", "raised", "returned"
    error,                    \* the error raised, "none" if none
    source, target,           \* iter_connections / pathway_edges arguments
    unique_node_ids, shuffle, return_edge_ids, return_edge_count,
    source_node_ids, target_node_ids,     \* the resolved node-ID arrays
    resolve_calls,            \* calls of _resolve_node_ids made by the operation
    backend_calls,            \* selection calls made on the backend by the operation
    direction,                \* "none" until _optimal_direction returned
    range_size_source, range_size_target, \* twice the estimated medians, -1 if not estimated
    primary_node_ids,         \* the primary node IDs not visited yet
    secondary_node_ids,       \* the secondary constraint (None, or sorted and unique)
    secondary_node_ids_used,
    key_node_id,              \* the primary node being scanned, -1 before the first
    connected_node_ids_with_count, \* the candidates of key_node_id not scanned yet
    yielded,                  \* the tuples the returned sequence has produced, in order
    properties,               \* pathway_edges argument
    selection_kind,           \* the backend selection pathway_edges used, "none" if none
    group, limit, sample,     \* ids arguments
    match,                    \* ids: the result of the dispatch on group, before post-processing
    drawn,                    \* ids: the positions np.random.choice drew, in the order drawn
    result,                   \* what pathway_edges / ids returned
    queries,                  \* ids argument group, when it is a query mapping
    raise_missing_property,   \* ids argument
    requested,                \* the property names _edge_ids_by_filter asked get for
    edge_ids,                 \* get argument
    get_properties_arg,       \* get argument properties
    fetches,                  \* the columns fetched by _get_property, in order
    frame                     \* what get / ids(query) returned

other_vars == <<properties, selection_kind, group, limit, sample, match, drawn, result>>
query_vars == <<queries, raise_missing_property, requested, edge_ids, get_properties_arg,
                fetches, frame>>

CastModes == {"wrap", "saturate"}

\* An optional integer: None, or n.
NoneInt == [isNone |-> TRUE, n |-> 0]
SomeInt(n) == [isNone |-> FALSE, n |-> n]

\* The population's source and target node populations' names.
SourceName == "src_pop"
TargetName == "tgt_pop"
CircuitNodeId(population, id) == [population |-> population, id |-> id]

\* ------------------------------------------------------- _estimate_range_size
\* Twice np.median(vals), vals a non-empty sequence of integers.
Median2(vals) ==
    LET s == SortSeq(vals, LAMBDA a, b : a < b)
        n == Len(s)
    IN  IF n % 2 = 1 THEN 2 * s[(n + 1) \div 2] ELSE s[n \div 2] + s[n \div 2 + 1]

\* The position sets np.random.choice(node_ids, size=n, replace=False) can draw;
\* all positions when len(node_ids) <= n.
SampledPositions(node_ids, n) ==
    IF Len(node_ids) > n
    THEN {S \in SUBSET (1..Len(node_ids)) : Cardinality(S) = n}
    ELSE {1..Len(node_ids)}

\* The values _estimate_range_size(func, node_ids) can return (doubled); side is
\* "source" for func = efferent_edges and "target" for func = afferent_edges.
_estimate_range_size(E, side, node_ids) ==
    LET func(node_id) == IF side = "source" THEN efferent_edges(E, {node_id})
                                             ELSE afferent_edges(E, {node_id})
    IN  {Median2([i \in 1..Cardinality(S) |-> ranges_len(func(node_ids[flatten(S)[i]]))]) :
            S \in SampledPositions(node_ids, SAMPLE_N)}

\* A comparison that makes the side with the larger estimate the primary one.
ChooseDirection_Larger(rs, rt) == IF rs > rt THEN "source" ELSE "target"

\* The comparison of _optimal_direction, on the two estimates (line 478).
ChooseDirection(rs, rt) == IF rs < rt THEN "source" ELSE "target"

\* _optimal_direction(): every way it can end, with the estimates it computed, the
\* number of backend calls it made and the error it raised ("none" if it returned).
\* _estimate_range_size asserts len(node_ids) > 0 before it calls the backend.
_optimal_direction(E, src, tgt) ==
    IF tgt.isNone /\ src.isNone
    THEN {[direction |-> "none", rs |-> -1, rt |-> -1, calls |-> 0,
           error |-> "either_source_or_target"]}
    ELSE IF src.isNone
    THEN {[direction |-> "target", rs |-> -1, rt |-> -1, calls |-> 0, error |-> "none"]}
    ELSE IF tgt.isNone
    THEN {[direction |-> "source", rs |-> -1, rt |-> -1, calls |-> 0, error |-> "none"]}
    ELSE IF Len(src.ids) = 0
    THEN {[direction |-> "none", rs |-> -1, rt |-> -1, calls |-> 0,
           error |-> "AssertionError"]}
    ELSE IF Len(tgt.ids) = 0
    THEN {[direction |-> "none", rs |-> rs, rt |-> -1, calls |-> Min(Len(src.ids), SAMPLE_N),
           error |-> "AssertionError"] : rs \in _estimate_range_size(E, "source", src.ids)}
    ELSE {[direction |-> ChooseDirection(rs, rt), rs |-> rs, rt |-> rt,
           calls |-> Min(Len(src.ids), SAMPLE_N) + Min(Len(tgt.ids), SAMPLE_N),
           error |-> "none"] :
             rs \in _estimate_range_size(E, "source", src.ids),
             rt \in _estimate_range_size(E, "target", tgt.ids)}

\* ------------------------------------------------------------ the loop body
\* afferent_nodes(key, unique=False) / efferent_nodes(key, unique=False)
get_connected_node_ids(E, dir, key) ==
    IF dir = "target" THEN source_nodes(E, afferent_edges(E, {key}))
                      ELSE target_nodes(E, efferent_edges(E, {key}))

\* np.unique(xs, return_counts=True), stacked and transposed: [[value, count], ...]
unique_with_counts(xs) ==
    LET values == np_unique(xs)
    IN  [i \in 1..Len(values) |->
            <<values[i], Cardinality({j \in 1..Len(xs) : xs[j] = values[i]})>>]

\* astype(np.uint32) of one float64 value holding a non-negative integer.
astype_uint32(mode, x) ==
    IF x <= Uint32Max THEN x
    ELSE IF mode = "wrap" THEN x % (Uint32Max + 1) ELSE Uint32Max

\* The candidates of one primary node before the shuffle: counted, cast and
\* filtered by the secondary constraint (lines 501-512).
Candidates(E, mode, dir, key, secondary) ==
    LET counted == unique_with_counts(get_connected_node_ids(E, dir, key))
        casted == [i \in 1..Len(counted) |->
                     <<astype_uint32(mode, counted[i][1]), astype_uint32(mode, counted[i][2])>>]
        isin(c) == c[1] \in Range(secondary.ids)
    IN  IF secondary.isNone THEN casted ELSE SelectSeq(casted, isin)

\* A scan that never skips a candidate.
SkipsCandidate_Never(uniq, conn_node_id, used) == FALSE

\* `if unique_node_ids and (conn_node_id in secondary_node_ids_used): continue`
SkipsCandidate(uniq, conn_node_id, used) == uniq /\ (conn_node_id \in used)

\* The candidates left from the first one the scan does not skip.
RECURSIVE DropSkipped(_, _, _)
DropSkipped(cands, uniq, used) ==
    IF cands = <<>> THEN <<>>
    ELSE IF SkipsCandidate(uniq, Head(cands)[1], used) THEN DropSkipped(Tail(cands), uniq, used)
    ELSE cands

\* A scan that goes on after a yield (`continue` for `break`).
AfterYield_Continue(uniq, rest) == rest

\* What is left to scan for the current primary node after a yield: nothing under
\* unique_node_ids (break), the rest otherwise.
AfterYield(uniq, rest) == IF uniq THEN <<>> ELSE rest

\* The tuple _iter_connections yields for the candidate <<conn_node_id, edge_count>>.
InnerTuple(dir, key, cand) ==
    IF dir = "target" THEN <<cand[1], key, cand[2]>> ELSE <<key, cand[1], cand[2]>>

\* pair_edges(s, t, properties=None): the edge IDs of the pair, ascending.
pair_edges(E, s, t) == flatten(connecting_edges(E, {s}, {t}))

\* _add_circuit_ids / _add_edge_ids / _omit_edge_count applied to one inner tuple.
Annotate(E, rec, rei, t) ==
    IF rec THEN <<CircuitNodeId(SourceName, t[1]), CircuitNodeId(TargetName, t[2]), t[3]>>
    ELSE IF rei THEN <<CircuitNodeId(SourceName, t[1]), CircuitNodeId(TargetName, t[2]),
                       pair_edges(E, t[1], t[2])>>
    ELSE <<CircuitNodeId(SourceName, t[1]), CircuitNodeId(TargetName, t[2])>>

\* One step of the run of the generator: the state after it, as a record.
\* prim: primary nodes left; st: [key, used, calls] before the step.
Yield(dir, uniq, prim, key, scan, st) ==
    [stop |-> FALSE, prim |-> prim, key |-> key,
     rest |-> AfterYield(uniq, Tail(scan)),
     used |-> IF uniq THEN st.used \cup {Head(scan)[1]} ELSE st.used,
     calls |-> st.calls,
     out |-> InnerTuple(dir, key, Head(scan))]

\* The generator run from the top of the outer loop (line 500) to its next yield
\* or its end: every way it can go. A primary node whose candidates are all
\* skipped costs one backend call and the run goes on with the next one.
RECURSIVE RunOuter(_, _, _, _, _, _, _, _)
RunOuter(E, mode, dir, secondary, uniq, shuf, prim, st) ==
    IF prim = <<>>
    THEN {[stop |-> TRUE, prim |-> prim, key |-> st.key, rest |-> <<>>, used |-> st.used,
           calls |-> st.calls, out |-> <<>>]}
    ELSE LET key == Head(prim)
             cands == Candidates(E, mode, dir, key, secondary)
             orders == IF shuf THEN Shuffles(cands) ELSE {cands}
             st2 == [key |-> key, used |-> st.used, calls |-> st.calls + 1]
             yields == {o \in orders : DropSkipped(o, uniq, st.used) # <<>>}
         IN  IF yields # {}
             THEN {Yield(dir, uniq, Tail(prim), key, DropSkipped(o, uniq, st.used), st2) :
                      o \in yields}
             ELSE RunOuter(E, mode, dir, secondary, uniq, shuf, Tail(prim), st2)

\* The same from inside the inner loop (line 516), with `rest` still to scan for
\* the primary node st.key.
RunInner(E, mode, dir, secondary, uniq, shuf, prim, rest, st) ==
    IF DropSkipped(rest, uniq, st.used) # <<>>
    THEN {Yield(dir, uniq, prim, st.key, DropSkipped(rest, uniq, st.used), st)}
    ELSE RunOuter(E, mode, dir, secondary, uniq, shuf, prim, st)

\* ------------------------------------------------------------------ inputs
Datasets == SeqsUpTo(SourceNodeIds \X TargetNodeIds, MaxEdges)
Groups(nodes, n) == {NoneIds} \cup {Some(a) : a \in SeqsUpTo(nodes, n)}

InitLocals ==
    /\ pc = "idle"
    /\ error = "none"
    /\ source = NoneIds /\ target = NoneIds
    /\ unique_node_ids = FALSE /\ shuffle = FALSE
    /\ return_edge_ids = FALSE /\ return_edge_count = FALSE
    /\ source_node_ids = NoneIds /\ target_node_ids = NoneIds
    /\ resolve_calls = 0 /\ backend_calls = 0
    /\ direction = "none"
    /\ range_size_source = -1 /\ range_size_target = -1
    /\ primary_node_ids = <<>>
    /\ secondary_node_ids = NoneIds
    /\ secondary_node_ids_used = {}
    /\ key_node_id = -1
    /\ connected_node_ids_with_count = <<>>
    /\ yielded = <<>>
    /\ properties = "None"
    /\ selection_kind = "none"
    /\ group = [kind |-> "None", items |-> <<>>]
    /\ limit = NoneInt /\ sample = NoneInt
    /\ match = <<>> /\ drawn = <<>>
    /\ result = <<>>
    /\ queries = [kind |-> "flat", maps |-> <<>>]
    /\ raise_missing_property = TRUE
    /\ requested = {}
    /\ edge_ids = [kind |-> "None", items |-> <<>>]
    /\ get_properties_arg = [kind |-> "None", names |-> <<>>]
    /\ fetches = <<>>
    /\ frame = [kind |-> "none", index |-> <<>>, columns |-> <<>>]

Init ==
    /\ edges \in Datasets
    /\ cast \in CastModes
    /\ InitLocals

\* ------------------------------------------------------------ iter_connections
\* The flag test with `or` for `and`.
FlagsConflict_Or(rei, rec) == rei \/ rec

\* `if return_edge_ids and return_edge_count` (line 590)
FlagsConflict(rei, rec) == rei /\ rec

\* The call iter_connections(source, target, unique_node_ids, shuffle,
\* return_edge_ids, return_edge_count) (lines 590-605): it raises, or it returns
\* the sequence, of which nothing has run yet.
IterConnections(src, tgt, uniq, shuf, rei, rec) ==
    /\ pc = "idle"
    /\ source' = src /\ target' = tgt
    /\ unique_node_ids' = uniq /\ shuffle' = shuf
    /\ return_edge_ids' = rei /\ return_edge_count' = rec
    /\ IF FlagsConflict(rei, rec)
       THEN /\ pc' = "raised"
            /\ error' = "mutually_exclusive"
            /\ UNCHANGED <<source_node_ids, target_node_ids, resolve_calls>>
       ELSE /\ pc' = "created"
            /\ error' = "none"
            /\ source_node_ids' = _resolve_node_ids(src)
            /\ target_node_ids' = _resolve_node_ids(tgt)
            /\ resolve_calls' = resolve_calls + 2
    /\ UNCHANGED <<edges, cast, backend_calls, direction, range_size_source, range_size_target,
                   primary_node_ids, secondary_node_ids, secondary_node_ids_used, key_node_id,
                   connected_node_ids_with_count, yielded, other_vars, query_vars>>

CallIterConnections ==
    /\ pc = "idle"
    /\ \E src \in Groups(SourceNodeIds, MaxArr), tgt \in Groups(TargetNodeIds, MaxArr),
          uniq \in BOOLEAN, shuf \in BOOLEAN, rei \in BOOLEAN, rec \in BOOLEAN :
           IterConnections(src, tgt, uniq, shuf, rei, rec)

\* The effect of one run r of the generator up to its next yield or its end.
Resume(r) ==
    /\ primary_node_ids' = r.prim
    /\ key_node_id' = r.key
    /\ connected_node_ids_with_count' = r.rest
    /\ secondary_node_ids_used' = r.used
    /\ backend_calls' = r.calls
    /\ IF r.stop
       THEN pc' = "exhausted" /\ yielded' = yielded
       ELSE /\ pc' = "running"
            /\ yielded' = Append(yielded, Annotate(edges, return_edge_count, return_edge_ids, r.out))

\* The first next() on the returned sequence: the body of _iter_connections runs
\* from its top (lines 480-498) into the loop, to the first yield, to the end or
\* to an error of _optimal_direction.
FirstPull ==
    /\ pc = "created"
    /\ IF _is_empty(source_node_ids) \/ _is_empty(target_node_ids)
       THEN /\ pc' = "exhausted"
            /\ UNCHANGED <<error, backend_calls, direction, range_size_source,
                           range_size_target, primary_node_ids, secondary_node_ids,
                           secondary_node_ids_used, key_node_id,
                           connected_node_ids_with_count, yielded>>
       ELSE \E d \in _optimal_direction(edges, source_node_ids, target_node_ids) :
            /\ direction' = d.direction
            /\ range_size_source' = d.rs
            /\ range_size_target' = d.rt
            /\ error' = d.error
            /\ IF d.error # "none"
               THEN /\ pc' = "raised"
                    /\ backend_calls' = d.calls
                    /\ UNCHANGED <<primary_node_ids, secondary_node_ids,
                                   secondary_node_ids_used, key_node_id,
                                   connected_node_ids_with_count, yielded>>
               ELSE LET prim == IF d.direction = "target" THEN target_node_ids
                                                          ELSE source_node_ids
                        sec == IF d.direction = "target" THEN source_node_ids
                                                         ELSE target_node_ids
                        sec_u == IF sec.isNone THEN sec ELSE Some(np_unique(sec.ids))
                    IN  /\ secondary_node_ids' = sec_u
                        /\ \E order \in (IF shuffle THEN Shuffles(np_unique(prim.ids))
                                                    ELSE {np_unique(prim.ids)}) :
                           \E r \in RunOuter(edges, cast, d.direction, sec_u, unique_node_ids,
                                             shuffle, order,
                                             [key |-> -1, used |-> {}, calls |-> d.calls]) :
                               Resume(r)
    /\ UNCHANGED <<edges, cast, source, target, unique_node_ids, shuffle, return_edge_ids,
                   return_edge_count, source_node_ids, target_node_ids, resolve_calls,
                   other_vars, query_vars>>

\* A later next(): the generator resumes after its last yield (lines 523-525).
Pull ==
    /\ pc = "running"
    /\ \E r \in RunInner(edges, cast, direction, secondary_node_ids, unique_node_ids, shuffle,
                         primary_node_ids, connected_node_ids_with_count,
                         [key |-> key_node_id, used |-> secondary_node_ids_used,
                          calls |-> backend_calls]) :
            Resume(r)
    /\ UNCHANGED <<edges, cast, error, source, target, unique_node_ids, shuffle,
                   return_edge_ids, return_edge_count, source_node_ids, target_node_ids,
                   resolve_calls, direction, range_size_source, range_size_target,
                   secondary_node_ids, other_vars, query_vars>>

vars == <<edges, cast, pc, error, source, target, unique_node_ids, shuffle, return_edge_ids,
          return_edge_count, source_node_ids, target_node_ids, resolve_calls, backend_calls,
          direction, range_size_source, range_size_target, primary_node_ids,
          secondary_node_ids, secondary_node_ids_used, key_node_id,
          connected_node_ids_with_count, yielded, properties, selection_kind, group, limit,
          sample, match, drawn, result, queries, raise_missing_property, requested,
          edge_ids, get_properties_arg, fetches, frame>>

Next == CallIterConnections \/ FirstPull \/ Pull

Spec == Init /\ [][Next]_vars


\* --------------------------------------------- the direction specification
\* The same program called with longer arrays, so that _estimate_range_size
\* samples SAMPLE_N of more node IDs. Which positions it samples does not depend
\* on the order of the array, so the arrays are taken in ascending order; the
\* direction is chosen before any node ID is cast, so the node IDs all fit the
\* word and one conversion is enough.
DirNodeIds == {0, 1}
SortedArrays(nodes, n) ==
    {a \in SeqsUpTo(nodes, n) : Len(a) >= 1 /\ \A i \in 1..(Len(a) - 1) : a[i] <= a[i + 1]}
DirGroups == {NoneIds} \cup {Some(a) : a \in SortedArrays(DirNodeIds, MaxDirArr)}

CallIterConnectionsDir ==
    /\ pc = "idle"
    /\ \E src \in DirGroups, tgt \in DirGroups :
           IterConnections(src, tgt, FALSE, FALSE, FALSE, TRUE)

NextDir == CallIterConnectionsDir \/ FirstPull \/ Pull

InitDir ==
    /\ edges \in SeqsUpTo(DirNodeIds \X DirNodeIds, MaxEdges)
    /\ cast = "wrap"
    /\ InitLocals

SpecDir == InitDir /\ [][NextDir]_vars

\* --------------------------------------------------------------- properties
\* Edge.SOURCE_NODE_ID, Edge.TARGET_NODE_ID and DYNAMICS_PREFIX of sonata_constants.
SOURCE_NODE_ID == "@source_node"
TARGET_NODE_ID == "@target_node"
\* The population's attribute names and its dynamics names with DYNAMICS_PREFIX.
_attribute_names == {"syn_weight"}
_dynamics_params_names == {"@dynamics:param1"}

\* EdgePopulation._get_property(prop, selection): the accessor it fetches the
\* column from, or the error it raises.
_get_property(prop) ==
    IF prop = SOURCE_NODE_ID THEN [error |-> "none", accessor |-> "source_nodes"]
    ELSE IF prop = TARGET_NODE_ID THEN [error |-> "none", accessor |-> "target_nodes"]
    ELSE IF prop \in _attribute_names THEN [error |-> "none", accessor |-> "get_attribute"]
    ELSE IF prop \in _dynamics_params_names
    THEN [error |-> "none", accessor |-> "get_dynamics_attribute"]
    ELSE [error |-> "no_such_property", accessor |-> "none"]

\* EdgePopulation._get(selection, properties) for a property name (a string): the
\* series indexed by the edge IDs, empty and unfetched when no edge is selected.
_get(sel, prop) ==
    IF Cardinality(sel) = 0
    THEN [error |-> "none", ids |-> <<>>, column |-> "none"]
    ELSE [error |-> _get_property(prop).error, ids |-> flatten(sel),
          column |-> _get_property(prop).accessor]

\* The kind of each error the population raises (all are BluepySnapError).
ErrorKind(e) ==
    CASE e \in {"either_source_or_target", "mutually_exclusive"} -> "InvalidArgument"
      [] e \in {"no_such_property", "unknown_edge_properties"} -> "UnknownProperty"
      [] e = "invalid_id_type" -> "InvalidIdType"
      [] OTHER -> e

\* ------------------------------------------------------------ pathway_edges
\* The test with `or` for `and`.
NoSideGiven_Or(src, tgt) == src.isNone \/ tgt.isNone

\* `if source is None and target is None` (line 395)
NoSideGiven(src, tgt) == src.isNone /\ tgt.isNone

\* The selection of lines 401-406, with its kind.
PathwaySelection(E, src_ids, tgt_ids) ==
    IF src_ids.isNone
    THEN [kind |-> "afferent", sel |-> afferent_edges(E, Range(tgt_ids.ids))]
    ELSE IF tgt_ids.isNone
    THEN [kind |-> "efferent", sel |-> efferent_edges(E, Range(src_ids.ids))]
    ELSE [kind |-> "connecting",
          sel |-> connecting_edges(E, Range(src_ids.ids), Range(tgt_ids.ids))]

\* Python's truth value of the properties argument (None or a string).
Truthy(props) == props # "None" /\ props # ""

\* pathway_edges(source, target, properties) (lines 395-410)
PathwayEdges(src, tgt, props) ==
    /\ pc = "idle"
    /\ source' = src /\ target' = tgt /\ properties' = props
    /\ IF NoSideGiven(src, tgt)
       THEN /\ pc' = "raised"
            /\ error' = "either_source_or_target"
            /\ UNCHANGED <<source_node_ids, target_node_ids, resolve_calls, backend_calls,
                           selection_kind, result>>
       ELSE LET src_ids == _resolve_node_ids(src)
                tgt_ids == _resolve_node_ids(tgt)
                selection == PathwaySelection(edges, src_ids, tgt_ids)
                got == IF Truthy(props) THEN _get(selection.sel, props)
                       ELSE [error |-> "none", ids |-> flatten(selection.sel),
                             column |-> "none"]
            IN  /\ source_node_ids' = src_ids
                /\ target_node_ids' = tgt_ids
                /\ resolve_calls' = resolve_calls + 2
                /\ backend_calls' = backend_calls + 1
                /\ selection_kind' = selection.kind
                /\ error' = got.error
                /\ pc' = IF got.error = "none" THEN "returned" ELSE "raised"
                /\ result' = IF got.error = "none" THEN [ids |-> got.ids, column |-> got.column]
                                                   ELSE result
    /\ UNCHANGED <<edges, cast, unique_node_ids, shuffle, return_edge_ids, return_edge_count,
                   direction, range_size_source, range_size_target, primary_node_ids,
                   secondary_node_ids, secondary_node_ids_used, key_node_id,
                   connected_node_ids_with_count, yielded, group, limit, sample, match, drawn,
                   query_vars>>

PropertyArgs == {"None", "", SOURCE_NODE_ID, TARGET_NODE_ID, "syn_weight", "@dynamics:param1",
                 "unknown"}

CallPathwayEdges ==
    /\ pc = "idle"
    /\ \E src \in Groups(SourceNodeIds, MaxArr), tgt \in Groups(TargetNodeIds, MaxArr),
          props \in PropertyArgs :
           PathwayEdges(src, tgt, props)

NextPathway == CallPathwayEdges

SpecPathway == Init /\ [][NextPathway]_vars

\* ---------------------------------------------------------------------- ids
\* self.name, and the name of another edge population.
ThisPopulation == "default"
OtherPopulation == "default2"

\* An element of a group: a plain integer, or a CircuitEdgeId(population, id).
Untyped(i) == [typed |-> FALSE, population |-> "", id |-> i]
CircuitEdgeId(population, i) == [typed |-> TRUE, population |-> population, id |-> i]

\* utils.ensure_list(group): a scalar becomes a list of one element.
ensure_list(g) == g.items

\* CircuitEdgeIds.filter_population(name).get_ids(): the IDs of this population.
filter_population_get_ids(items) ==
    LET mine(e) == e.population = ThisPopulation
        kept == SelectSeq(items, mine)
    IN  [i \in 1..Len(kept) |-> Untyped(kept[i].id)]

\* The dispatch of ids on the type of group (lines 270-289): the match, or the
\* error raised.
IdsDispatch(E, g) ==
    IF g.kind = "None"
    THEN [error |-> "none", items |-> [i \in 1..Len(flatten(select_all(E))) |->
                                          Untyped(flatten(select_all(E))[i])]]
    ELSE IF g.kind = "CircuitEdgeIds"
    THEN [error |-> "none", items |-> filter_population_get_ids(g.items)]
    ELSE IF g.kind = "ndarray"
    THEN [error |-> "none", items |-> g.items]
    ELSE LET lst == ensure_list(g)
             mine(e) == e.population = ThisPopulation
         IN  IF lst # <<>> /\ Head(lst).typed
             THEN IF \E i \in 1..Len(lst) : ~lst[i].typed
                  THEN [error |-> "invalid_id_type", items |-> <<>>]
                  ELSE [error |-> "none",
                        items |-> [i \in 1..Len(SelectSeq(lst, mine)) |->
                                      Untyped(SelectSeq(lst, mine)[i].id)]]
             ELSE [error |-> "none", items |-> lst]

\* np.random.choice(result, size, replace=False) on n elements: the positions it
\* can draw, in the order drawn.
np_random_choice(n, size) ==
    {d \in [1..size -> 1..n] : \A i, j \in 1..size : i # j => d[i] # d[j]}

\* np.random.choice turns its list into an array first: a list that holds a
\* CircuitEdgeId beside integers is ragged, which numpy refuses (ValueError) or
\* takes as an array of objects, depending on its version.
ChoiceRefusals(res) ==
    IF \E i, j \in 1..Len(res) : res[i].typed /\ ~res[j].typed
    THEN {[error |-> "ValueError", drawn |-> <<>>, out |-> <<>>]}
    ELSE {}

\* The post-processing done the other way round: limit, then sample.
PostProcess_LimitFirst(res, smp, lim) ==
    LET cut == IF lim.isNone THEN res ELSE SubSeq(res, 1, Min(lim.n, Len(res)))
    IN  IF (~smp.isNone) /\ Len(cut) > 0
        THEN {[error |-> "none", drawn |-> d, out |-> [i \in 1..Len(d) |-> cut[d[i]]]] :
                 d \in np_random_choice(Len(cut), Min(smp.n, Len(cut)))}
        ELSE {[error |-> "none", drawn |-> <<>>, out |-> cut]}

\* The post-processing of ids (lines 290-294): sample, then limit. Every outcome,
\* with the positions drawn.
PostProcess(res, smp, lim) ==
    LET sampled == IF (~smp.isNone) /\ Len(res) > 0
                   THEN {[error |-> "none", drawn |-> d,
                          out |-> [i \in 1..Len(d) |-> res[d[i]]]] :
                            d \in np_random_choice(Len(res), Min(smp.n, Len(res)))}
                        \cup ChoiceRefusals(res)
                   ELSE {[error |-> "none", drawn |-> <<>>, out |-> res]}
    IN  {[error |-> r.error, drawn |-> r.drawn,
          out |-> IF lim.isNone THEN r.out ELSE SubSeq(r.out, 1, Min(lim.n, Len(r.out)))] :
            r \in sampled}

\* utils.ensure_ids(result): the array of IDs; numpy refuses a CircuitEdgeId.
ensure_ids(res) ==
    IF \E i \in 1..Len(res) : res[i].typed
    THEN [error |-> "ValueError", ids |-> <<>>]
    ELSE [error |-> "none", ids |-> [i \in 1..Len(res) |-> res[i].id]]

\* ids(group, limit, sample) (lines 270-295)
Ids(g, lim, smp) ==
    /\ pc = "idle"
    /\ group' = g /\ limit' = lim /\ sample' = smp
    /\ backend_calls' = IF g.kind = "None" THEN backend_calls + 1 ELSE backend_calls
    /\ LET m == IdsDispatch(edges, g)
       IN  IF m.error # "none"
           THEN /\ pc' = "raised" /\ error' = m.error
                /\ UNCHANGED <<match, drawn, result>>
           ELSE /\ match' = m.items
                /\ \E pp \in PostProcess(m.items, smp, lim) :
                      LET ids == IF pp.error # "none" THEN [error |-> pp.error, ids |-> <<>>]
                                                      ELSE ensure_ids(pp.out)
                      IN  /\ drawn' = pp.drawn
                          /\ error' = ids.error
                          /\ pc' = IF ids.error = "none" THEN "returned" ELSE "raised"
                          /\ result' = ids.ids
    /\ UNCHANGED <<edges, cast, source, target, unique_node_ids, shuffle, return_edge_ids,
                   return_edge_count, source_node_ids, target_node_ids, resolve_calls,
                   direction, range_size_source, range_size_target, primary_node_ids,
                   secondary_node_ids, secondary_node_ids_used, key_node_id,
                   connected_node_ids_with_count, yielded, properties, selection_kind,
                   query_vars>>

\* The groups handed to ids.
EdgeIdValues == {0, 1}
UntypedElements == {Untyped(i) : i \in EdgeIdValues}
TypedElements == {CircuitEdgeId(pop, i) : pop \in {ThisPopulation, OtherPopulation},
                                           i \in EdgeIdValues}
IdsGroups ==
    {[kind |-> "None", items |-> <<>>]}
    \cup {[kind |-> "ndarray", items |-> a] : a \in SeqsUpTo(UntypedElements, MaxGroup)}
    \cup {[kind |-> "CircuitEdgeIds", items |-> a] : a \in SeqsUpTo(TypedElements, MaxGroup)}
    \cup {[kind |-> "scalar", items |-> <<e>>] : e \in UntypedElements \cup TypedElements}
    \cup {[kind |-> "list", items |-> a] :
             a \in SeqsUpTo(UntypedElements \cup TypedElements, MaxGroup)}
OptionalCounts == {NoneInt} \cup {SomeInt(n) : n \in 0..MaxCount}

CallIds ==
    /\ pc = "idle"
    /\ \E g \in IdsGroups, lim \in OptionalCounts, smp \in OptionalCounts : Ids(g, lim, smp)

NextIds == CallIds

\* ids reads the population only for its size: the edges are all alike here.
InitIds ==
    /\ edges \in {[i \in 1..n |-> <<0, 0>>] : n \in 0..MaxEdges}
    /\ cast = "wrap"
    /\ InitLocals

SpecIds == InitIds /\ [][NextIds]_vars

\* ---------------------------------------------------------------------- get
\* The bound of the lists of property names handed to get.
MaxProps == 2

\* property_names (line 140) and _topology_property_names (line 119)
_topology_property_names == {SOURCE_NODE_ID, TARGET_NODE_ID}
property_names == _attribute_names \cup _dynamics_params_names \cup _topology_property_names

\* The properties argument of get: None, a name, or a list of names.
NoneProps == [kind |-> "None", names |-> <<>>]
ScalarProp(p) == [kind |-> "scalar", names |-> <<p>>]
ListProps(ps) == [kind |-> "list", names |-> ps]

\* The loop `for p in properties: result[p] = self._get_property(p, selection)`
\* (lines 201-202): the columns fetched in order, up to the first name that
\* _get_property refuses.
RECURSIVE FetchColumns(_, _)
FetchColumns(names, done) ==
    IF names = <<>> THEN [error |-> "none", fetches |-> done]
    ELSE LET got == _get_property(Head(names))
         IN  IF got.error # "none" THEN [error |-> got.error, fetches |-> done]
             ELSE FetchColumns(Tail(names),
                               Append(done, [prop |-> Head(names), accessor |-> got.accessor]))

\* EdgePopulation._get(selection, properties) (lines 191-212) on the selection
\* libsonata.Selection(edge_ids), which flattens to edge_ids: the edge IDs for
\* properties None, a DataFrame for a list of names, a Series for one name; no
\* column is fetched when no edge is selected.
GetFrame(ids, props) ==
    IF props.kind = "None"
    THEN [error |-> "none", fetches |-> <<>>,
          frame |-> [kind |-> "ids", index |-> ids, columns |-> <<>>]]
    ELSE IF Len(ids) = 0
    THEN [error |-> "none", fetches |-> <<>>,
          frame |-> [kind |-> IF props.kind = "list" THEN "DataFrame" ELSE "Series",
                     index |-> <<>>, columns |-> props.names]]
    ELSE LET got == FetchColumns(props.names, <<>>)
         IN  [error |-> got.error, fetches |-> got.fetches,
              frame |-> [kind |-> IF props.kind = "list" THEN "DataFrame" ELSE "Series",
                         index |-> ids, columns |-> props.names]]

\* edge_ids = self.ids(edge_ids) (line 313), with no limit and no sample.
GetIds(E, g) ==
    LET m == IdsDispatch(E, g)
    IN  IF m.error # "none" THEN [error |-> m.error, ids |-> <<>>] ELSE ensure_ids(m.items)

iter_vars == <<source, target, unique_node_ids, shuffle, return_edge_ids, return_edge_count,
               source_node_ids, target_node_ids, resolve_calls, direction, range_size_source,
               range_size_target, primary_node_ids, secondary_node_ids,
               secondary_node_ids_used, key_node_id, connected_node_ids_with_count, yielded>>

\* get(edge_ids, properties) (lines 313-315)
Get(g, props) ==
    /\ pc = "idle"
    /\ edge_ids' = g /\ get_properties_arg' = props
    /\ backend_calls' = IF g.kind = "None" THEN backend_calls + 1 ELSE backend_calls
    /\ LET ids == GetIds(edges, g)
           got == IF ids.error # "none"
                  THEN [error |-> ids.error, fetches |-> <<>>, frame |-> frame]
                  ELSE GetFrame(ids.ids, props)
       IN  /\ error' = got.error
           /\ pc' = IF got.error = "none" THEN "returned" ELSE "raised"
           /\ fetches' = got.fetches
           /\ frame' = IF got.error = "none" THEN got.frame ELSE frame
    /\ UNCHANGED <<edges, cast, iter_vars, other_vars, queries, raise_missing_property,
                   requested>>

\* The arguments handed to get: edge IDs of the population, in any order.
PropertyNameArgs == property_names \cup {"unknown"}
GetPropertyArgs ==
    {NoneProps} \cup {ScalarProp(p) : p \in PropertyNameArgs}
    \cup {ListProps(ps) : ps \in SeqsUpTo(PropertyNameArgs, MaxProps)}
GetGroups(E) ==
    {[kind |-> "None", items |-> <<>>]}
    \cup {[kind |-> "ndarray", items |-> a] :
             a \in SeqsUpTo({Untyped(i - 1) : i \in 1..Len(E)}, MaxGroup)}

CallGet ==
    /\ pc = "idle"
    /\ \E g \in GetGroups(edges), props \in GetPropertyArgs : Get(g, props)

NextGet == CallGet

SpecGet == InitIds /\ [][NextGet]_vars

\* ------------------------------------------------------- ids(query mapping)
\* The bounds of the queries: the keys of one mapping, the mappings under a
\* combinator, and the chunk of edge IDs materialized at once (1e8 in the code,
\* scaled to the populations modelled).
MaxKeys == 2
MaxSubQueries == 2
MaxChunk == 2
chunk_size == MaxChunk

\* A query: one mapping from property names to values, or the mappings under a
\* `$or` / `$and` combinator. A mapping is a function on its keys.
QueryNames == {SOURCE_NODE_ID, TARGET_NODE_ID, "unknown"}
QueryValues == {0, 1}
Mappings(n) ==
    UNION {[K -> QueryValues] : K \in {K \in SUBSET QueryNames : Cardinality(K) <= n}}
Queries ==
    {[kind |-> "flat", maps |-> <<m>>] : m \in Mappings(MaxKeys)}
    \cup {[kind |-> k, maps |-> ms] :
             k \in {"$or", "$and"},
             ms \in SeqsUpTo({m \in Mappings(1) : DOMAIN m # {}}, MaxSubQueries)}

\* query.get_properties(queries): every property name referenced anywhere, the
\* combinator keys left out.
get_properties(q) == UNION {DOMAIN q.maps[i] : i \in 1..Len(q.maps)}

\* The column of a topological property, by edge ID.
ColumnValue(E, prop, id) == IF prop = SOURCE_NODE_ID THEN E[id + 1][1] ELSE E[id + 1][2]

\* query.resolve_ids(data, ...) for one row: a leaf is an exact match on its
\* column, a mapping the AND of its leaves, `$or` / `$and` the OR / AND of its
\* mappings. A leaf on a name that was not materialized matches as `dropped` says.
LeafMatch(E, columns, dropped, prop, value, id) ==
    IF prop \in columns THEN ColumnValue(E, prop, id) = value ELSE dropped
MappingMatch(E, columns, dropped, m, id) ==
    \A prop \in DOMAIN m : LeafMatch(E, columns, dropped, prop, m[prop], id)
resolve_ids(E, columns, dropped, q, id) ==
    IF q.kind = "$or"
    THEN \E i \in 1..Len(q.maps) : MappingMatch(E, columns, dropped, q.maps[i], id)
    ELSE \A i \in 1..Len(q.maps) : MappingMatch(E, columns, dropped, q.maps[i], id)

\* np.array_split(ids, sections): sections chunks of nearly equal size, the
\* longer ones first.
RECURSIVE array_split(_, _)
array_split(ids, sections) ==
    IF sections = 1 THEN <<ids>>
    ELSE LET size == (Len(ids) \div sections)
                     + (IF Len(ids) % sections > 0 THEN 1 ELSE 0)
         IN  <<SubSeq(ids, 1, size)>>
             \o array_split(SubSeq(ids, size + 1, Len(ids)), sections - 1)

\* The orders in which a set of names can be iterated.
Orders(S) == {o \in [1..Cardinality(S) -> S] : \A i, j \in 1..Cardinality(S) :
                                                    i # j => o[i] # o[j]}

\* pd.DataFrame(columns=properties) with a set of names (line 199, reached with
\* an empty chunk): pandas builds the empty table or refuses the set
\* (ValueError), depending on its version.
FrameOutcomes(got) ==
    IF got.error = "none" /\ Len(got.frame.index) = 0
    THEN {got, [error |-> "ValueError", fetches |-> <<>>, frame |-> got.frame]}
    ELSE {got}

\* The test raising for every query with an unknown name, strict or not.
StrictRaises_Always(strict, unknown_props) == unknown_props # {}

\* `if raise_missing_prop and unknown_props` (line 234)
StrictRaises(strict, unknown_props) == strict /\ unknown_props # {}

\* The loop over the chunks (lines 239-241): each chunk is materialized by
\* get(chunk, properties - unknown_props) and filtered by the query's mask.
RECURSIVE FilterChunks(_, _, _, _, _, _)
FilterChunks(E, q, order, dropped, chunks, acc) ==
    IF chunks = <<>> THEN {acc}
    ELSE LET chunk == Head(chunks)
             keep(id) == resolve_ids(E, Range(order), dropped, q, id)
         IN  UNION {IF data.error # "none"
                    THEN {[error |-> data.error, res |-> acc.res,
                           fetches |-> acc.fetches \o data.fetches, frame |-> acc.frame]}
                    ELSE FilterChunks(E, q, order, dropped, Tail(chunks),
                                      [error |-> "none",
                                       res |-> acc.res \o SelectSeq(chunk, keep),
                                       fetches |-> acc.fetches \o data.fetches,
                                       frame |-> data.frame]) :
                      data \in FrameOutcomes(GetFrame(chunk, ListProps(order)))}

\* _edge_ids_by_filter(queries, raise_missing_prop) (lines 232-242): every
\* outcome, with the names asked of get and the columns fetched.
_edge_ids_by_filter(E, q, strict) ==
    LET props == get_properties(q)
        unknown_props == props \ property_names
        ids == flatten(select_all(E))
        chunks == array_split(ids, 1 + (Len(ids) \div chunk_size))
        start == [error |-> "none", res |-> <<>>, fetches |-> <<>>,
                  frame |-> [kind |-> "none", index |-> <<>>, columns |-> <<>>]]
    IN  IF StrictRaises(strict, unknown_props)
        THEN {[error |-> "unknown_edge_properties", called |-> FALSE, requested |-> {},
               res |-> <<>>, fetches |-> <<>>, frame |-> start.frame]}
        ELSE {[error |-> r.error, called |-> TRUE, requested |-> props \ unknown_props,
               res |-> r.res, fetches |-> r.fetches, frame |-> r.frame] :
                 r \in UNION {FilterChunks(E, q, order, dropped, chunks, start) :
                                 order \in Orders(props \ unknown_props),
                                 dropped \in BOOLEAN}}

\* ids(group, limit, sample, raise_missing_property) for a group that is a
\* Mapping (lines 276-279, then 290-295).
IdsQuery(q, strict, lim, smp) ==
    /\ pc = "idle"
    /\ group' = [kind |-> "Mapping", items |-> <<>>]
    /\ queries' = q /\ raise_missing_property' = strict
    /\ limit' = lim /\ sample' = smp
    /\ \E f \in _edge_ids_by_filter(edges, q, strict) :
          /\ requested' = f.requested
          /\ fetches' = f.fetches
          /\ frame' = f.frame
          /\ backend_calls' = IF f.called THEN backend_calls + 1 ELSE backend_calls
          /\ IF f.error # "none"
             THEN /\ pc' = "raised" /\ error' = f.error
                  /\ UNCHANGED <<match, drawn, result>>
             ELSE LET items == [i \in 1..Len(f.res) |-> Untyped(f.res[i])]
                  IN  /\ match' = items
                      /\ \E pp \in PostProcess(items, smp, lim) :
                            LET ids == IF pp.error # "none"
                                       THEN [error |-> pp.error, ids |-> <<>>]
                                       ELSE ensure_ids(pp.out)
                            IN  /\ drawn' = pp.drawn
                                /\ error' = ids.error
                                /\ pc' = IF ids.error = "none" THEN "returned" ELSE "raised"
                                /\ result' = ids.ids
    /\ UNCHANGED <<edges, cast, iter_vars, properties, selection_kind, edge_ids,
                   get_properties_arg>>

QueryCounts == {NoneInt, SomeInt(1)}

CallIdsQuery ==
    /\ pc = "idle"
    /\ \E q \in Queries, strict \in BOOLEAN, lim \in QueryCounts :
           IdsQuery(q, strict, lim, NoneInt)

NextQuery == CallIdsQuery

SpecQuery == InitDir /\ [][NextQuery]_vars

\* ------------------------------------------------------------------ claims
\* Position, in a yielded tuple, of the secondary side and of the primary side.
SecondaryIdx == IF direction = "target" THEN 1 ELSE 2
PrimaryIdx == IF direction = "target" THEN 2 ELSE 1

\* The number of edges from s to t.
EdgeCount(s, t) == Cardinality({i \in 1..Len(edges) : edges[i] = <<s, t>>})

\* An array that is given (not None) and has no element.
EmptyArray(xs) == (~xs.isNone) /\ (xs.ids = <<>>)

\* C1: with unique_node_ids, shuffle on or off, whatever the dataset, the
\* constraints and the direction, no two tuples of the output carry the same node
\* ID on the secondary side.
C1_SecondaryNeverTwice ==
    unique_node_ids =>
        \A i, j \in 1..Len(yielded) :
            i # j => yielded[i][SecondaryIdx].id # yielded[j][SecondaryIdx].id

\* C1 witness: a shuffled unique run yielded twice, and the primary node of the
\* second tuple is also connected to the secondary node of the first one.
C1_Witness ==
    /\ unique_node_ids /\ shuffle
    /\ Len(yielded) = 2
    /\ \E i \in 1..Len(edges) :
          /\ edges[i][PrimaryIdx] = yielded[2][PrimaryIdx].id
          /\ edges[i][SecondaryIdx] = yielded[1][SecondaryIdx].id

\* C2: with unique_node_ids the scan of a primary node stops at its first accepted
\* candidate (nothing is left to scan after a yield), so no node ID is in two
\* tuples as source and none is in two tuples as target.
C2_PrimaryAtMostOnce ==
    unique_node_ids =>
        /\ connected_node_ids_with_count = <<>>
        /\ \A i, j \in 1..Len(yielded) :
              i # j => /\ yielded[i][1].id # yielded[j][1].id
                       /\ yielded[i][2].id # yielded[j][2].id

\* C2 witness: a unique run over an unconstrained target side ended after one
\* tuple although its source node has edges to two different targets.
C2_Witness ==
    /\ unique_node_ids /\ pc = "exhausted" /\ direction = "source" /\ target.isNone
    /\ Len(yielded) = 1
    /\ \E i, j \in 1..Len(edges) :
          /\ edges[i][1] = yielded[1][1].id /\ edges[j][1] = yielded[1][1].id
          /\ edges[i][2] # edges[j][2]

\* The tuples C3 expects: one per connected pair of the two resolved sets.
ExpectedConnections ==
    {<<CircuitNodeId(SourceName, s), CircuitNodeId(TargetName, t), EdgeCount(s, t)>> :
        <<s, t>> \in {e \in Range(edges) :
                        /\ source.isNone \/ e[1] \in Range(source.ids)
                        /\ target.isNone \/ e[2] \in Range(target.ids)}}

\* C3: without unique_node_ids and with return_edge_count, the exhausted sequence
\* has yielded exactly one tuple (s, t, count of the edges s -> t) per connected
\* pair of the resolved source and target sets, and nothing else.
C3_ExactlyTheConnectedPairs ==
    (pc = "exhausted" /\ ~unique_node_ids /\ return_edge_count) =>
        /\ Range(yielded) = ExpectedConnections
        /\ Len(yielded) = Cardinality(ExpectedConnections)

\* C4: when a resolved array is empty and not None, the sequence ends without a
\* tuple, without an error and without one backend selection call.
C4_EmptyYieldsNothing ==
    (EmptyArray(source_node_ids) \/ EmptyArray(target_node_ids)) =>
        /\ pc \in {"created", "exhausted"}
        /\ error = "none"
        /\ yielded = <<>>
        /\ backend_calls = 0

\* C4 witness: the sequence of a call with source=[] and target=None, on a
\* population that has edges, was pulled and has ended.
C4_Witness ==
    /\ pc = "exhausted"
    /\ EmptyArray(source_node_ids) /\ target_node_ids.isNone
    /\ edges # <<>>

\* C5: a call with source=None and target=None raises in the call itself: it
\* never returns a sequence.
C5_BothNoneRaisesInTheCall ==
    (source.isNone /\ target.isNone) => pc # "created"

\* C6: with both return_edge_ids and return_edge_count the call raises the
\* mutual-exclusion error before any resolution or backend call, whatever source
\* and target are; with at most one of them it never raises that error.
C6_MutuallyExclusiveFlags ==
    pc # "idle" =>
        /\ (return_edge_ids /\ return_edge_count) =>
              /\ pc = "raised" /\ error = "mutually_exclusive"
              /\ resolve_calls = 0 /\ backend_calls = 0
        /\ ~(return_edge_ids /\ return_edge_count) => error # "mutually_exclusive"

\* C6 witness: the error was raised by a call with both flags and no source and
\* no target.
C6_Witness ==
    /\ pc = "raised" /\ error = "mutually_exclusive"
    /\ return_edge_ids /\ return_edge_count
    /\ source.isNone /\ target.isNone


\* The edge IDs whose edge is from a node of src (any if None) to one of tgt.
PathwayIds(src, tgt) ==
    {i - 1 : i \in {j \in 1..Len(edges) :
                      /\ src.isNone \/ edges[j][1] \in Range(src.ids)
                      /\ tgt.isNone \/ edges[j][2] \in Range(tgt.ids)}}

\* C7: pathway_edges raises the invalid-argument error exactly when source and
\* target are both None, then without a backend call; otherwise it uses the
\* afferent selection when only target is given, the efferent one when only
\* source is given and the connecting one when both are, and what it returns are
\* the edges from source to target.
C7_PathwayEdges ==
    pc \in {"returned", "raised"} =>
        /\ (ErrorKind(error) = "InvalidArgument") <=> (source.isNone /\ target.isNone)
        /\ (source.isNone /\ target.isNone) => (selection_kind = "none" /\ backend_calls = 0)
        /\ (source.isNone /\ ~target.isNone) => selection_kind = "afferent"
        /\ (~source.isNone /\ target.isNone) => selection_kind = "efferent"
        /\ (~source.isNone /\ ~target.isNone) => selection_kind = "connecting"
        /\ pc = "returned" => Range(result.ids) = PathwayIds(source, target)

\* C7 witness: pathway_edges with target only returned edges of the afferent
\* selection.
C7_Witness ==
    /\ pc = "returned" /\ source.isNone /\ ~target.isNone
    /\ selection_kind = "afferent"
    /\ Len(result.ids) >= 2

\* len(func(node_id).ranges) counted on the dataset: the edges of the node (as
\* source for side 1, as target for side 2) that do not follow another one of it.
RangeCount(side, node_id) ==
    Cardinality({i \in 1..Len(edges) :
                    /\ edges[i][side] = node_id
                    /\ (i = 1 \/ edges[i - 1][side] # node_id)})

\* m2 is twice the median of val over the positions S.
IsMedian2(m2, S, val(_)) ==
    LET n == Cardinality(S)
        below(v) == Cardinality({x \in S : val(x) < v})
        upto(v) == Cardinality({x \in S : val(x) <= v})
    IN  \E p, q \in S :
            /\ val(p) + val(q) = m2
            /\ below(val(p)) <= (n - 1) \div 2 /\ upto(val(p)) >= (n + 1) \div 2
            /\ below(val(q)) <= n \div 2 /\ upto(val(q)) >= n \div 2 + 1

\* m2 is twice the median range count of min(SAMPLE_N, len) positions of node_ids.
IsEstimate(m2, side, node_ids) ==
    \E S \in SUBSET (1..Len(node_ids)) :
        /\ Cardinality(S) = Min(SAMPLE_N, Len(node_ids))
        /\ IsMedian2(m2, S, LAMBDA x : RangeCount(side, node_ids[x]))

\* C8: once the direction is chosen, it is target when source is None and source
\* when target is None; when both are given the estimates are medians of the range
\* counts of at most SAMPLE_N sampled node IDs of each side and the primary side is
\* the one with the smaller estimate, target on equal estimates.
C8_Direction ==
    direction # "none" =>
        /\ source_node_ids.isNone => direction = "target"
        /\ (target_node_ids.isNone /\ ~source_node_ids.isNone) => direction = "source"
        /\ (~source_node_ids.isNone /\ ~target_node_ids.isNone) =>
              /\ IsEstimate(range_size_source, 1, source_node_ids.ids)
              /\ IsEstimate(range_size_target, 2, target_node_ids.ids)
              /\ range_size_source < range_size_target => direction = "source"
              /\ range_size_source >= range_size_target => direction = "target"

\* C8 witness: both sides were given, the source array has more than SAMPLE_N
\* node IDs, and source was chosen on a strictly smaller estimate.
C8_Witness ==
    /\ direction = "source"
    /\ ~target_node_ids.isNone
    /\ Len(source_node_ids.ids) > SAMPLE_N
    /\ range_size_source < range_size_target


\* C9: sample, then limit. With a match of n elements, a sample s draws
\* k = min(s, n) positions of the match, no position twice, and the result is the
\* first min(limit, k) of the elements drawn; without a sample the result is the
\* unchanged prefix of length min(limit, n) of the match (all of it when
\* limit >= n or no limit is given).
C9_SampleThenLimit ==
    pc = "returned" =>
        LET n == Len(match)
            sampling == (~sample.isNone) /\ n > 0
            k == IF sampling THEN Min(sample.n, n) ELSE n
            m == IF limit.isNone THEN k ELSE Min(limit.n, k)
        IN  /\ Len(result) = m
            /\ IF sampling
               THEN /\ Len(drawn) = k
                    /\ \A i \in 1..k : drawn[i] \in 1..n
                    /\ \A i, j \in 1..k : i # j => drawn[i] # drawn[j]
                    /\ \A i \in 1..m : result[i] = match[drawn[i]].id
               ELSE /\ drawn = <<>>
                    /\ \A i \in 1..m : result[i] = match[i].id

\* C9 witness: ids on a list of three IDs with sample=2 and limit=1 returned the
\* third element of the match.
C9_Witness ==
    /\ pc = "returned" /\ group.kind = "list"
    /\ Len(match) = 3 /\ match[3].id # match[1].id
    /\ sample = SomeInt(2) /\ limit = SomeInt(1)
    /\ drawn[1] = 3 /\ result = <<match[3].id>>

\* C10: ids of a list that holds both a CircuitEdgeId and an untyped value ends
\* with the invalid-ID-type error, wherever in the list they are.
C10_MixedListRaises ==
    (/\ pc \in {"returned", "raised"}
     /\ group.kind = "list"
     /\ \E i \in 1..Len(group.items) : group.items[i].typed
     /\ \E i \in 1..Len(group.items) : ~group.items[i].typed)
        => (pc = "raised" /\ error = "invalid_id_type")

\* The accessor a property name of the union belongs to.
AccessorOf(name) ==
    IF name = SOURCE_NODE_ID THEN "source_nodes"
    ELSE IF name = TARGET_NODE_ID THEN "target_nodes"
    ELSE IF name \in _attribute_names THEN "get_attribute"
    ELSE "get_dynamics_attribute"

\* C12: get(edge_ids, properties) fails with the unknown-property error whenever
\* a requested property name is outside the union of topological, attribute and
\* dynamics names, whatever the edge IDs (the empty array included); and every
\* column it fetches for a name of the union comes from the one accessor of that
\* name's namespace.
C12_UnknownPropertyAlwaysRaises ==
    (pc \in {"returned", "raised"} /\ get_properties_arg.kind # "None") =>
        /\ (\E i \in 1..Len(get_properties_arg.names) :
               get_properties_arg.names[i] \notin property_names)
           => (pc = "raised" /\ ErrorKind(error) = "UnknownProperty")
        /\ \A i \in 1..Len(fetches) :
               /\ fetches[i].prop \in property_names
               /\ fetches[i].accessor = AccessorOf(fetches[i].prop)

\* C11: ids(query mapping). In strict mode a query naming a property outside
\* property_names fails with the unknown-property error before any edge ID or
\* column is asked of the backend; in lenient mode the same query never raises
\* that error, and the unknown names are left out of the properties materialized.
C11_StrictFailsFastLenientDrops ==
    (pc \in {"returned", "raised"} /\ group.kind = "Mapping") =>
        LET unknown_props == get_properties(queries) \ property_names
        IN  /\ (raise_missing_property /\ unknown_props # {}) =>
                   /\ pc = "raised" /\ ErrorKind(error) = "UnknownProperty"
                   /\ backend_calls = 0 /\ fetches = <<>> /\ requested = {}
            /\ (~raise_missing_property) =>
                   /\ ErrorKind(error) # "UnknownProperty"
                   /\ requested = get_properties(queries) \cap property_names
                   /\ \A i \in 1..Len(fetches) : fetches[i].prop \in requested

\* A lenient query naming a known and an unknown property has returned, the
\* known column fetched.
C11_Witness ==
    /\ pc = "returned" /\ group.kind = "Mapping" /\ ~raise_missing_property
    /\ get_properties(queries) \ property_names # {}
    /\ requested # {} /\ fetches # <<>>

\* The pairs (source, target) of the dataset that lie within the arguments.
ConnectedPairs ==
    {e \in Range(edges) : /\ source.isNone \/ e[1] \in Range(source.ids)
                          /\ target.isNone \/ e[2] \in Range(target.ids)}

\* C13: the 32-bit cast touches the edge counts only. Every tuple emitted carries
\* on its two sides the node IDs of an edge of the dataset, so the secondary ID is
\* the connected node ID the backend reported, node IDs of 2^32 and more
\* included; and the secondary constraint is tested on that ID, so an exhausted
\* run without unique_node_ids has emitted every connected pair within the
\* arguments.
C13_CastKeepsNodeIds ==
    /\ \A i \in 1..Len(yielded) :
          <<yielded[i][1].id, yielded[i][2].id>> \in Range(edges)
    /\ (pc = "exhausted" /\ error = "none" /\ ~unique_node_ids) =>
          \A e \in ConnectedPairs :
              \E i \in 1..Len(yielded) : <<yielded[i][1].id, yielded[i][2].id>> = e

\* The resolved array of the primary side and of the secondary side.
PrimaryArray == IF direction = "target" THEN target_node_ids ELSE source_node_ids
SecondaryArray == IF direction = "target" THEN source_node_ids ELSE target_node_ids

\* The tuples of the run without unique_node_ids, for the same arguments and the
\* same direction.
NonUniqueOutput ==
    {Annotate(edges, return_edge_count, return_edge_ids, InnerTuple(direction, key, cand)) :
        <<key, cand>> \in
            UNION {{<<k, c>> : c \in Range(Candidates(edges, cast, direction, k,
                                                      secondary_node_ids))} :
                      k \in Range(PrimaryArray.ids)}}

\* C14: when a run with unique_node_ids is exhausted, a primary node that is in
\* no tuple has no eligible candidate left: every node connected to it that
\* passes the secondary constraint is the secondary side of a tuple emitted for
\* another primary node (an earlier one, in the ascending order of a run that is
\* not shuffled); and every tuple emitted is a tuple of the run without
\* unique_node_ids.
C14_GreedyComplete ==
    (pc = "exhausted" /\ error = "none" /\ unique_node_ids /\ direction # "none") =>
        /\ \A p \in Range(PrimaryArray.ids) :
              (\A i \in 1..Len(yielded) : yielded[i][PrimaryIdx].id # p) =>
                  \A e \in Range(edges) :
                      (/\ e[PrimaryIdx] = p
                       /\ SecondaryArray.isNone \/ e[SecondaryIdx] \in Range(SecondaryArray.ids))
                      => \E i \in 1..Len(yielded) :
                            /\ yielded[i][SecondaryIdx].id = e[SecondaryIdx]
                            /\ shuffle \/ yielded[i][PrimaryIdx].id < p
        /\ \A i \in 1..Len(yielded) : yielded[i] \in NonUniqueOutput

\* C15: without shuffle the tuples come in strictly ascending lexicographic order
\* of (primary node ID, secondary node ID), whatever the order and the
\* duplicates of the arrays given: the primary nodes in ascending order, and the
\* connected nodes of one primary node in ascending order.
C15_AscendingOrder ==
    (~shuffle /\ direction # "none") =>
        \A i, j \in 1..Len(yielded) :
            i < j =>
                \/ yielded[i][PrimaryIdx].id < yielded[j][PrimaryIdx].id
                \/ /\ yielded[i][PrimaryIdx].id = yielded[j][PrimaryIdx].id
                   /\ yielded[i][SecondaryIdx].id < yielded[j][SecondaryIdx].id
====
